---- MODULE Spec2Model ----
(***************************************************************************)
(* Model of the DORA metrics engine of ContentAnalyzer/analyze.py.         *)
(*                                                                         *)
(* A message is a sequence of one-character strings, so that the regular   *)
(* expressions of the code (substring search, case folding, the bracketed  *)
(* tag) are computed character by character.  A timestamp is <<h>>, h the  *)
(* number of whole hours since 1970-01-01T00:00Z (a Thursday), or NaT.     *)
(* A float is a fraction [num, den]; den = 0 is NaN.                       *)
(*                                                                         *)
(* The module also models the paginated fetch loops of the GitHub scrapers *)
(* (github-scraper, fetch_github_data.py): their state is the tuple        *)
(* scraper, and http logs every list request with the response it got.     *)
(***************************************************************************)
EXTENDS Integers, Sequences, FiniteSets, TLC

VARIABLES pc, df, component, components, module_name, results, report,
          page, all_data, http, commits, pull_requests, output_file
vars == <<pc, df, component, components, module_name, results, report,
          page, all_data, http, commits, pull_requests, output_file>>

\* the state of analyze.py and the state of the GitHub scrapers
analysis == <<df, component, components, module_name, results, report>>
scraper == <<page, all_data, http, commits, pull_requests, output_file>>

(***************************************************************************)
(* Bounds and input sets                                                   *)
(***************************************************************************)
MaxEvents == 3

\* the server holds at most MaxPages non-empty pages; a page holds at most
\* per_page items
MaxPages == 3
per_page == 3

NaT == <<>>
NA == <<>>

Timestamp(h) == <<h>>

Dates == {NaT, Timestamp(0), Timestamp(5), Timestamp(96)}

msg_X_bug == <<"[", "X", "]", " ", "b", "u", "g">>
msg_X_release == <<"[", "X", "]", " ", "r", "e", "l", "e", "a", "s", "e">>
msg_X_Revert_bump == <<"[", "X", "]", " ", "R", "e", "v", "e", "r", "t", " ", "b", "u", "m", "p">>
msg_Y_update == <<"[", "Y", "]", " ", "u", "p", "d", "a", "t", "e">>

CallMessages == {msg_X_bug, msg_X_release, msg_X_Revert_bump, msg_Y_update}

name_X == <<"X">>
name_Y == <<"Y">>
name_A == <<"A">>
name_a == <<"a">>
name_B == <<"B">>

ModuleNames == {name_X, name_Y}

msg_A_bug == <<"[", "A", "]", " ", "b", "u", "g">>
msg_a_release == <<"[", "a", "]", " ", "r", "e", "l", "e", "a", "s", "e">>
msg_B_PR_A == <<"[", "B", "]", " ", "P", "R", " ", "[", "A", "]">>
msg_fix == <<"f", "i", "x", " ", "[", "]">>

MainMessages == {msg_A_bug, msg_a_release, msg_B_PR_A, msg_fix}

MainDates == {NaT, Timestamp(0), Timestamp(5)}

\* frames that exercise the filter and the four labels; NA is a missing message
msg_fix_x == <<"f", "i", "x", " ", "[", "x", "]">>
msg_XY_Updates == <<"[", "X", "Y", "]", " ", "U", "p", "d", "a", "t", "e", "s">>
msg_X_improve == <<"[", "X", "]", " ", "i", "m", "p", "r", "o", "v", "e">>

TextMessages == {msg_X_bug, msg_X_release, msg_fix_x, msg_XY_Updates, msg_X_improve, NA}

name_XY == <<"X", "Y">>

TextNames == {name_X, name_XY}

\* frames that exercise the tag: no bracket, empty brackets, an unclosed
\* bracket, empty brackets before a tag, a second tag
msg_Auth_fixed_bug == <<"[", "A", "u", "t", "h", "]", " ", "f", "i", "x", "e", "d", " ", "b", "u", "g">>
msg_fixed_bug == <<"f", "i", "x", "e", "d", " ", "b", "u", "g">>
msg_A_open == <<"[", "A", " ", "f", "i", "x">>
msg_empty_A == <<"[", "]", " ", "[", "A", "]">>

TagMessages == {msg_Auth_fixed_bug, msg_fixed_bug, msg_fix, msg_A_open, msg_empty_A, msg_B_PR_A}

name_Auth == <<"A", "u", "t", "h">>

\* frames whose component names hold a vocabulary term: "pr" in Prod,
\* "update" in Updater, "bug" in Debugger
msg_Prod_fix == <<"[", "P", "r", "o", "d", "]", " ", "f", "i", "x">>
msg_log_prod == <<"l", "o", "g", " ", "[", "p", "r", "o", "d", "]">>
msg_Updater_docs == <<"[", "U", "p", "d", "a", "t", "e", "r", "]", " ", "d", "o", "c", "s">>
msg_Debugger_tidy == <<"[", "D", "e", "b", "u", "g", "g", "e", "r", "]", " ", "t", "i", "d", "y">>

NameMessages == {msg_Prod_fix, msg_log_prod, msg_Updater_docs, msg_Debugger_tidy, msg_X_bug}

name_Prod == <<"P", "r", "o", "d">>
name_Updater == <<"U", "p", "d", "a", "t", "e", "r">>
name_Debugger == <<"D", "e", "b", "u", "g", "g", "e", "r">>

TermNames == {name_Prod, name_Updater, name_Debugger, name_X}

Event(m, d) == [message |-> m, date |-> d]

CallEvents == {Event(m, d) : m \in CallMessages, d \in Dates}
MainEvents == {Event(m, d) : m \in MainMessages, d \in MainDates}
TextEvents == {Event(m, d) : m \in TextMessages, d \in MainDates}
TagEvents == {Event(m, d) : m \in TagMessages, d \in {Timestamp(0)}}
NameEvents == {Event(m, d) : m \in NameMessages, d \in {NaT, Timestamp(0)}}

(***************************************************************************)
(* Floats                                                                  *)
(***************************************************************************)
Float(n, d) == [num |-> n, den |-> d]
Zero == Float(0, 1)
NaN == Float(0, 0)

IsFinite(x) == x.den # 0
IsZero(x) == x.den # 0 /\ x.num = 0
FloatEq(x, y) == x.den # 0 /\ y.den # 0 /\ x.num * y.den = y.num * x.den
FloatGt(x, y) == x.den > 0 /\ y.den > 0 /\ x.num * y.den > y.num * x.den

RECURSIVE SumSeq(_)
SumSeq(s) == IF s = <<>> THEN 0 ELSE Head(s) + SumSeq(Tail(s))

(***************************************************************************)
(* Text: case folding and the regular expressions of the code              *)
(***************************************************************************)
UpperCase == <<"A", "B", "C", "D", "E", "F", "G", "H", "I", "J", "K", "L", "M",
               "N", "O", "P", "Q", "R", "S", "T", "U", "V", "W", "X", "Y", "Z">>
LowerCase == <<"a", "b", "c", "d", "e", "f", "g", "h", "i", "j", "k", "l", "m",
               "n", "o", "p", "q", "r", "s", "t", "u", "v", "w", "x", "y", "z">>

Letters == {UpperCase[k] : k \in 1..Len(UpperCase)} \cup {LowerCase[k] : k \in 1..Len(LowerCase)}

\* str.lower() of one character, as a table over the letters
LowerOf ==
    [c \in Letters |->
        IF \E k \in 1..Len(UpperCase) : UpperCase[k] = c
        THEN LowerCase[CHOOSE k \in 1..Len(UpperCase) : UpperCase[k] = c]
        ELSE c]

Lower(c) == IF c \in Letters THEN LowerOf[c] ELSE c

\* re.search of the literal p at offset k of s with case=True
MatchAt_exact_case(s, p, k) ==
    /\ k + Len(p) - 1 <= Len(s)
    /\ \A j \in 1..Len(p) : s[k + j - 1] = p[j]

\* re.search of the literal p at offset k of s, case=False
MatchAt(s, p, k) ==
    /\ k + Len(p) - 1 <= Len(s)
    /\ \A j \in 1..Len(p) : Lower(s[k + j - 1]) = Lower(p[j])

\* Series.str.contains('|'.join(pats), case=False, na=False) on one value
str_contains(s, pats) ==
    /\ s # NA
    /\ \E k \in 1..Len(pats) : \E o \in 1..Len(s) : MatchAt(s, pats[k], o)

deployment_keywords ==
    << <<"d", "e", "p", "l", "o", "y">>,
       <<"r", "e", "l", "e", "a", "s", "e">>,
       <<"b", "u", "m", "p">>,
       <<"u", "p", "d", "a", "t", "e">>,
       <<"v", "e", "r", "s", "i", "o", "n">> >>
failure_keywords ==
    << <<"b", "u", "g">>,
       <<"r", "o", "l", "l", "b", "a", "c", "k">>,
       <<"h", "o", "t", "f", "i", "x">>,
       <<"r", "e", "v", "e", "r", "t">>,
       <<"p", "a", "t", "c", "h">> >>
bug_keywords ==
    << <<"b", "u", "g">>,
       <<"e", "r", "r", "o", "r">>,
       <<"i", "s", "s", "u", "e">> >>
pr_keywords ==
    << <<"P", "R">>,
       <<"p", "u", "l", "l", " ", "r", "e", "q", "u", "e", "s", "t">> >>

is_deployment(m) == str_contains(m, deployment_keywords)
is_failure(m) == str_contains(m, failure_keywords)
is_bug(m) == str_contains(m, bug_keywords)
is_pr(m) == str_contains(m, pr_keywords)

\* Series.str.extract(r'\[([^\]]+)\]') on one value: the group of the leftmost
\* match, NA when the pattern does not match
TagMatch(s, p, q) ==
    /\ p + 1 < q
    /\ q <= Len(s)
    /\ s[p] = "["
    /\ s[q] = "]"
    /\ \A j \in (p + 1)..(q - 1) : s[j] # "]"

\* str_extract that takes the last bracketed token of the message
str_extract_last(s) ==
    IF s = NA \/ ~ \E p \in 1..Len(s) : \E q \in 1..Len(s) : TagMatch(s, p, q)
    THEN NA
    ELSE LET p == CHOOSE p1 \in 1..Len(s) :
                    /\ \E q \in 1..Len(s) : TagMatch(s, p1, q)
                    /\ \A p2 \in (p1 + 1)..Len(s) : ~ \E q \in 1..Len(s) : TagMatch(s, p2, q)
             q == CHOOSE q1 \in 1..Len(s) : TagMatch(s, p, q1)
         IN  SubSeq(s, p + 1, q - 1)

str_extract(s) ==
    IF s = NA \/ ~ \E p \in 1..Len(s) : \E q \in 1..Len(s) : TagMatch(s, p, q)
    THEN NA
    ELSE LET p == CHOOSE p1 \in 1..Len(s) :
                    /\ \E q \in 1..Len(s) : TagMatch(s, p1, q)
                    /\ \A p2 \in 1..(p1 - 1) : ~ \E q \in 1..Len(s) : TagMatch(s, p2, q)
             q == CHOOSE q1 \in 1..Len(s) : TagMatch(s, p, q1)
         IN  SubSeq(s, p + 1, q - 1)

(***************************************************************************)
(* DataFrame helpers                                                       *)
(***************************************************************************)
\* the rows of a frame read by read_csv, labelled by its RangeIndex 0..n-1
Rows(d) == [i \in 1..Len(d) |-> [index |-> i - 1, message |-> d[i].message, date |-> d[i].date]]

\* Series.str raises AttributeError on a column that holds no string at all
\* (read_csv reads an all-empty column as float64)
StrAccessorRaises(d) == d # <<>> /\ \A i \in 1..Len(d) : d[i].message = NA

\* Timestamp - Timestamp, in hours: <<h>>, or NaT when either side is NaT
TimeSub(a, b) == IF a = NaT \/ b = NaT THEN NaT ELSE <<a[1] - b[1]>>

\* to_period with weeks counted from the epoch, Thursday to Wednesday
to_period_from_epoch(t) ==
    IF t = NaT THEN NaT ELSE <<(t[1] \div 24) \div 7>>

\* Series.dt.to_period('W') on one value: the week ending on Sunday that holds
\* the timestamp, named by the day number of that Sunday
to_period_W(t) ==
    IF t = NaT THEN NaT
    ELSE LET day == t[1] \div 24
             weekday == (day + 3) % 7
         IN  <<day + 6 - weekday>>

\* int / int of Python
ZeroDivisionError == [raised |-> "ZeroDivisionError"]
AttributeError == [raised |-> "AttributeError"]
PyDiv(n, d) == IF d = 0 THEN ZeroDivisionError ELSE Float(n, d)

RECURSIVE SumFn(_)
SumFn(f) ==
    IF DOMAIN f = {} THEN 0
    ELSE LET k == CHOOSE k1 \in DOMAIN f : TRUE
         IN  f[k] + SumFn([j \in DOMAIN f \ {k} |-> f[j]])

\* Series.mean() of a Series of numbers and NaN (skipna): NaN when nothing is left
SeriesMean(f) ==
    LET kept == {k \in DOMAIN f : f[k] # NaT}
    IN  Float(SumFn([k \in kept |-> f[k][1]]), Cardinality(kept))

(***************************************************************************)
(* calculate_dora_metrics                                                  *)
(***************************************************************************)
bracketed(name) == <<"[">> \o name \o <<"]">>

\* the four label columns of lines 28-31, tabulated once over the messages
\* that a frame of the model can hold
\* the message without its first bracketed token
without_tag(m) ==
    IF m = NA \/ str_extract(m) = NA THEN m
    ELSE LET p == CHOOSE p1 \in 1..Len(m) :
                    /\ \E q \in 1..Len(m) : TagMatch(m, p1, q)
                    /\ \A p2 \in 1..(p1 - 1) : ~ \E q \in 1..Len(m) : TagMatch(m, p2, q)
             q == CHOOSE q1 \in 1..Len(m) : TagMatch(m, p, q1)
         IN  SubSeq(m, 1, p - 1) \o SubSeq(m, q + 1, Len(m))

\* the labels computed on the text around the tag only
label_columns_without_tag ==
    [m \in CallMessages \cup MainMessages \cup TextMessages \cup TagMessages \cup NameMessages |->
        [is_deployment |-> is_deployment(without_tag(m)),
         is_failure |-> is_failure(without_tag(m)),
         is_bug |-> is_bug(without_tag(m)),
         is_pr |-> is_pr(without_tag(m))]]

label_columns ==
    [m \in CallMessages \cup MainMessages \cup TextMessages \cup TagMessages \cup NameMessages |->
        [is_deployment |-> is_deployment(m),
         is_failure |-> is_failure(m),
         is_bug |-> is_bug(m),
         is_pr |-> is_pr(m)]]

\* module_commits without the filter: every row of the frame
module_commits_unfiltered(d, name) ==
    LET sel == Rows(d)
    IN  [k \in 1..Len(sel) |->
            [index |-> sel[k].index,
             message |-> sel[k].message,
             date |-> sel[k].date,
             is_deployment |-> label_columns[sel[k].message].is_deployment,
             is_failure |-> label_columns[sel[k].message].is_failure,
             is_bug |-> label_columns[sel[k].message].is_bug,
             is_pr |-> label_columns[sel[k].message].is_pr]]

\* module_commits that keeps the rows whose first tag is the name, letter for letter
module_commits_first_tag(d, name) ==
    LET sel == SelectSeq(Rows(d), LAMBDA r : str_extract(r.message) = name)
    IN  [k \in 1..Len(sel) |->
            [index |-> sel[k].index,
             message |-> sel[k].message,
             date |-> sel[k].date,
             is_deployment |-> label_columns[sel[k].message].is_deployment,
             is_failure |-> label_columns[sel[k].message].is_failure,
             is_bug |-> label_columns[sel[k].message].is_bug,
             is_pr |-> label_columns[sel[k].message].is_pr]]

\* module_commits with the filter of line 21 comparing letter for letter
module_commits_exact_case(d, name) ==
    LET sel == SelectSeq(Rows(d), LAMBDA r :
                   /\ r.message # NA
                   /\ \E o \in 1..Len(r.message) :
                          MatchAt_exact_case(r.message, bracketed(name), o))
    IN  [k \in 1..Len(sel) |->
            [index |-> sel[k].index,
             message |-> sel[k].message,
             date |-> sel[k].date,
             is_deployment |-> label_columns[sel[k].message].is_deployment,
             is_failure |-> label_columns[sel[k].message].is_failure,
             is_bug |-> label_columns[sel[k].message].is_bug,
             is_pr |-> label_columns[sel[k].message].is_pr]]

\* the filtered copy with its label columns and the naive dates
module_commits(d, name) ==
    LET sel == SelectSeq(Rows(d), LAMBDA r : str_contains(r.message, <<bracketed(name)>>))
    IN  [k \in 1..Len(sel) |->
            [index |-> sel[k].index,
             message |-> sel[k].message,
             date |-> sel[k].date,
             is_deployment |-> label_columns[sel[k].message].is_deployment,
             is_failure |-> label_columns[sel[k].message].is_failure,
             is_bug |-> label_columns[sel[k].message].is_bug,
             is_pr |-> label_columns[sel[k].message].is_pr]]

\* a count of the labelled rows that have a timestamp
bug_count_timed(mc) == Len(SelectSeq(mc, LAMBDA r : r.is_bug /\ r.date # NaT))

\* a total that counts the rows with a timestamp only
total_commits_timed(mc) == Len(SelectSeq(mc, LAMBDA r : r.date # NaT))

deployment_count(mc) == Len(SelectSeq(mc, LAMBDA r : r.is_deployment))
failure_count(mc) == Len(SelectSeq(mc, LAMBDA r : r.is_failure))
bug_count(mc) == Len(SelectSeq(mc, LAMBDA r : r.is_bug))
pr_count(mc) == Len(SelectSeq(mc, LAMBDA r : r.is_pr))
total_commits(mc) == Len(mc)

weekly_deployment_freq(mc) ==
    IF deployment_count(mc) > 0
    THEN LET deployments == SelectSeq(mc, LAMBDA r : r.is_deployment)
             week == [k \in 1..Len(deployments) |-> to_period_W(deployments[k].date)]
             groups == {week[k] : k \in 1..Len(deployments)} \ {NaT}
             size == [w \in groups |-> Cardinality({k \in 1..Len(deployments) : week[k] = w})]
         IN  Float(SumFn(size), Cardinality(groups))
    ELSE Zero

\* change_failure_rate capped at 100
change_failure_rate_capped(mc) ==
    IF deployment_count(mc) > 0
    THEN IF failure_count(mc) > deployment_count(mc)
         THEN Float(100, 1)
         ELSE PyDiv(failure_count(mc) * 100, deployment_count(mc))
    ELSE Zero

\* change_failure_rate without the guard on deployment_count
change_failure_rate_unguarded(mc) ==
    PyDiv(failure_count(mc) * 100, deployment_count(mc))

change_failure_rate(mc) ==
    IF deployment_count(mc) > 0
    THEN PyDiv(failure_count(mc) * 100, deployment_count(mc))
    ELSE Zero

failure_indices(mc) ==
    LET failures == SelectSeq(mc, LAMBDA r : r.is_failure)
    IN  [k \in 1..Len(failures) |-> failures[k].index]

loc(mc, idx) == mc[CHOOSE k \in 1..Len(mc) : mc[k].index = idx]

\* recovery_step that keeps every duration, positive or not
recovery_step_unchecked(mc, idx) ==
    LET failure_time == loc(mc, idx).date
        subsequent_recoveries == SelectSeq(mc, LAMBDA r : r.index > idx /\ r.is_deployment)
    IN  IF subsequent_recoveries # <<>>
        THEN LET recovery_time == subsequent_recoveries[1].date
                 time_to_recovery == TimeSub(recovery_time, failure_time)
             IN  IF time_to_recovery # NaT
                 THEN <<time_to_recovery[1]>>
                 ELSE <<>>
        ELSE <<>>

\* recovery_step with the failure itself among the candidate recoveries
recovery_step_from_self(mc, idx) ==
    LET failure_time == loc(mc, idx).date
        subsequent_recoveries == SelectSeq(mc, LAMBDA r : r.index >= idx /\ r.is_deployment)
    IN  IF subsequent_recoveries # <<>>
        THEN LET recovery_time == subsequent_recoveries[1].date
                 time_to_recovery == TimeSub(recovery_time, failure_time)
             IN  IF time_to_recovery # NaT /\ time_to_recovery[1] > 0
                 THEN <<time_to_recovery[1]>>
                 ELSE <<>>
        ELSE <<>>

\* one iteration of the loop over failure_indices: what it appends
recovery_step(mc, idx) ==
    LET failure_time == loc(mc, idx).date
        subsequent_recoveries == SelectSeq(mc, LAMBDA r : r.index > idx /\ r.is_deployment)
    IN  IF subsequent_recoveries # <<>>
        THEN LET recovery_time == subsequent_recoveries[1].date
                 time_to_recovery == TimeSub(recovery_time, failure_time)
             IN  IF time_to_recovery # NaT /\ time_to_recovery[1] > 0
                 THEN <<time_to_recovery[1]>>
                 ELSE <<>>
        ELSE <<>>

RECURSIVE recovery_loop(_, _)
recovery_loop(mc, indices) ==
    IF indices = <<>> THEN <<>>
    ELSE recovery_step(mc, Head(indices)) \o recovery_loop(mc, Tail(indices))

recovery_times(mc) == recovery_loop(mc, failure_indices(mc))

\* mean_time_to_recovery over all the failures, recovered or not
mean_over_failures(mc) ==
    IF recovery_times(mc) # <<>>
    THEN PyDiv(SumSeq(recovery_times(mc)), Len(failure_indices(mc)))
    ELSE Zero

mean_time_to_recovery(mc) ==
    IF recovery_times(mc) # <<>>
    THEN PyDiv(SumSeq(recovery_times(mc)), Len(recovery_times(mc)))
    ELSE Zero

\* the subtraction taken by position: the k-th deployment against the k-th
\* filtered event
lead_times_by_position(mc) ==
    LET deployment_rows == SelectSeq(mc, LAMBDA r : r.is_deployment)
    IN  [i \in {mc[k].index : k \in 1..Len(mc)} |->
            LET k == CHOOSE j \in 1..Len(mc) : mc[j].index = i
            IN  IF k <= Len(deployment_rows)
                THEN TimeSub(deployment_rows[k].date, mc[k].date)
                ELSE NaT]

\* deployment_times - module_commits['date']: the two Series are aligned on
\* their index labels, a label missing on one side gives NaT
lead_times(mc) ==
    LET deployment_rows == SelectSeq(mc, LAMBDA r : r.is_deployment)
        deployment_times ==
            [i \in {deployment_rows[k].index : k \in 1..Len(deployment_rows)} |-> loc(mc, i).date]
        dates == [i \in {mc[k].index : k \in 1..Len(mc)} |-> loc(mc, i).date]
    IN  [i \in DOMAIN deployment_times \cup DOMAIN dates |->
            IF i \in DOMAIN deployment_times /\ i \in DOMAIN dates
            THEN TimeSub(deployment_times[i], dates[i])
            ELSE NaT]

lead_time_for_changes(mc) ==
    IF deployment_count(mc) > 0
    THEN IF DOMAIN lead_times(mc) # {} THEN SeriesMean(lead_times(mc)) ELSE Zero
    ELSE Zero

calculate_dora_metrics(d, name) ==
    IF StrAccessorRaises(d) THEN AttributeError
    ELSE LET mc == module_commits(d, name)
         IN  IF change_failure_rate(mc) = ZeroDivisionError
                \/ mean_time_to_recovery(mc) = ZeroDivisionError
             THEN ZeroDivisionError
             ELSE [Module_Name |-> name,
                   Total_Commits |-> total_commits(mc),
                   Total_Bugs |-> bug_count(mc),
                   Total_PRs |-> pr_count(mc),
                   Weekly_Deployment_Frequency |-> weekly_deployment_freq(mc),
                   Change_Failure_Rate |-> change_failure_rate(mc),
                   Mean_Time_to_Recovery |-> mean_time_to_recovery(mc),
                   Lead_Time_for_Changes |-> lead_time_for_changes(mc)]

(***************************************************************************)
(* extract_components                                                      *)
(***************************************************************************)
component_column(d) == [i \in 1..Len(d) |-> str_extract(d[i].message)]

\* dropna() alone: the repeats of a value are kept
dropna_only(s) == SelectSeq(s, LAMBDA x : x # NA)

\* Series.dropna().unique(): the distinct values in order of first appearance
RECURSIVE unique(_)
unique(s) ==
    IF s = <<>> THEN <<>>
    ELSE LET front == unique(SubSeq(s, 1, Len(s) - 1))
             last == s[Len(s)]
         IN  IF last = NA \/ \E k \in 1..Len(front) : front[k] = last
             THEN front
             ELSE Append(front, last)

extract_components(d) == unique(component_column(d))

(***************************************************************************)
(* The program: load_data, then either main's loop over the extracted      *)
(* components or a direct call of calculate_dora_metrics                   *)
(***************************************************************************)
NoReport == [raised |-> "none"]

\* no file on disk
NoFile == [exists |-> FALSE]

Init ==
    /\ pc = "load"
    /\ df = <<>>
    /\ component = <<>>
    /\ components = <<>>
    /\ module_name = NA
    /\ results = <<>>
    /\ report = NoReport
    /\ page = 1
    /\ all_data = <<>>
    /\ http = <<>>
    /\ commits = <<>>
    /\ pull_requests = <<>>
    /\ output_file = NoFile

\* load_data: read_csv reads one more row of the file
LoadRow(e) ==
    /\ pc = "load"
    /\ Len(df) < MaxEvents
    /\ df' = Append(df, e)
    /\ UNCHANGED <<pc, component, components, module_name, results, report>>
    /\ UNCHANGED scraper

\* main, line 97
ExtractComponents ==
    /\ pc = "load"
    /\ IF StrAccessorRaises(df)
       THEN /\ pc' = "raised"
            /\ UNCHANGED <<component, components>>
       ELSE /\ component' = component_column(df)
            /\ components' = extract_components(df)
            /\ pc' = "loop"
    /\ UNCHANGED <<df, module_name, results, report>>
    /\ UNCHANGED scraper

\* the caller's frame after calculate_dora_metrics(d, name), had the filter
\* of line 21 been applied to the caller's frame itself
df_after_call_in_place(d, name) ==
    LET sel == SelectSeq(Rows(d), LAMBDA r : str_contains(r.message, <<bracketed(name)>>))
    IN  [k \in 1..Len(sel) |-> d[sel[k].index + 1]]

\* the caller's frame after calculate_dora_metrics(d, name): df[mask].copy()
\* builds a new frame and every later assignment (lines 28-39) is to the copy
df_after_call(d, name) == d

\* main, lines 101-103: one iteration
CalculateNext ==
    /\ pc = "loop"
    /\ Len(results) < Len(components)
    /\ module_name' = components[Len(results) + 1]
    /\ LET r == calculate_dora_metrics(df, module_name')
       IN  IF "raised" \in DOMAIN r
           THEN /\ pc' = "raised"
                /\ UNCHANGED results
           ELSE /\ results' = Append(results, r)
                /\ pc' = "loop"
    /\ df' = df_after_call(df, module_name')
    /\ UNCHANGED <<component, components, report>>
    /\ UNCHANGED scraper

\* main, lines 106-111
Output ==
    /\ pc = "loop"
    /\ Len(results) = Len(components)
    /\ pc' = "done"
    /\ UNCHANGED <<df, component, components, module_name, results, report>>
    /\ UNCHANGED scraper

\* a direct call calculate_dora_metrics(df, module_name)
Call(name) ==
    /\ pc = "load"
    /\ module_name' = name
    /\ report' = calculate_dora_metrics(df, name)
    /\ df' = df_after_call(df, name)
    /\ pc' = "called"
    /\ UNCHANGED <<component, components, results>>
    /\ UNCHANGED scraper

LoadMain == \E e \in MainEvents : LoadRow(e)
LoadCall == \E e \in CallEvents : LoadRow(e)
CallAny == \E name \in ModuleNames : Call(name)

Next == LoadMain \/ ExtractComponents \/ CalculateNext \/ Output

Spec == Init /\ [][Next]_vars

LoadTag == \E e \in TagEvents : LoadRow(e)

NextTag == LoadTag \/ ExtractComponents \/ CalculateNext \/ Output

SpecTag == Init /\ [][NextTag]_vars

\* the loop of lines 101-103 with the components taken in any order: one call
\* of calculate_dora_metrics for a component that has no report yet
CalculateAny ==
    /\ pc = "loop"
    /\ \E c \in 1..Len(components) :
           /\ \A k \in 1..Len(results) : results[k].Module_Name # components[c]
           /\ module_name' = components[c]
           /\ LET r == calculate_dora_metrics(df, module_name')
              IN  IF "raised" \in DOMAIN r
                  THEN /\ pc' = "raised"
                       /\ UNCHANGED results
                  ELSE /\ results' = Append(results, r)
                       /\ pc' = "loop"
           /\ df' = df_after_call(df, module_name')
    /\ UNCHANGED <<component, components, report>>
    /\ UNCHANGED scraper

NextAnyOrder == LoadMain \/ ExtractComponents \/ CalculateAny \/ Output

SpecAnyOrder == Init /\ [][NextAnyOrder]_vars

NextCall == LoadCall \/ CallAny

SpecCall == Init /\ [][NextCall]_vars

LoadText == \E e \in TextEvents : LoadRow(e)
CallText == \E name \in TextNames : Call(name)

NextText == LoadText \/ CallText

SpecText == Init /\ [][NextText]_vars

LoadName == \E e \in NameEvents : LoadRow(e)

CallName == \E name \in TermNames : Call(name)

NextName == LoadName \/ CallName

SpecName == Init /\ [][NextName]_vars

(***************************************************************************)
(* The GitHub scrapers.  http is the log of the calls of session.get on a  *)
(* list endpoint, each with the response it got: the page asked for, the   *)
(* status (NoResponse when session.get raised) and the decoded body.       *)
(***************************************************************************)
OK == 200
NotFound == 404
Unavailable == 503
NoResponse == 0

\* the j-th item of the body served for page p of an endpoint
Item(endpoint, p, j) == <<endpoint, p, j>>

Body(endpoint, p, n) == [j \in 1..n |-> Item(endpoint, p, j)]

\* the non-empty pages already served for an endpoint
Served(endpoint) ==
    Len(SelectSeq(http, LAMBDA r : r.endpoint = endpoint /\ r.status = OK /\ r.body # <<>>))

\* what session.get(url, params) can come back with for page p: a list of
\* at most per_page items (none once the server has no page left), an error
\* status, or no response at all
Responses(endpoint, p) ==
    {[endpoint |-> endpoint, page |-> p, status |-> OK, body |-> Body(endpoint, p, n)] :
        n \in 0..(IF Served(endpoint) < MaxPages THEN per_page ELSE 0)}
    \cup {[endpoint |-> endpoint, page |-> p, status |-> st, body |-> <<>>] :
        st \in {NotFound, Unavailable, NoResponse}}

\* all_data.extend(page_data) with the page in front of the list
extend_in_front(data, page_data) == page_data \o data

\* all_data.extend(page_data)
extend(data, page_data) == data \o page_data

\* GitHubDataService._paginate_github_data, lines 86-93
InitPaginate ==
    /\ pc = "paginate"
    /\ df = <<>>
    /\ component = <<>>
    /\ components = <<>>
    /\ module_name = NA
    /\ results = <<>>
    /\ report = NoReport
    /\ page = 1
    /\ all_data = <<>>
    /\ http = <<>>
    /\ commits = <<>>
    /\ pull_requests = <<>>
    /\ output_file = NoFile

\* one iteration of the loop of _paginate_github_data, lines 95-112
PaginateStep ==
    /\ pc = "paginate"
    /\ \E response \in Responses("data", page) :
           /\ http' = Append(http, response)
           /\ IF response.status # OK
              THEN /\ pc' = "raised"
                   /\ UNCHANGED <<page, all_data>>
              ELSE IF response.body = <<>>
                   THEN /\ pc' = "returned"
                        /\ UNCHANGED <<page, all_data>>
                   ELSE /\ all_data' = extend(all_data, response.body)
                        /\ page' = page + 1
                        /\ pc' = "paginate"
    /\ UNCHANGED <<commits, pull_requests, output_file>>
    /\ UNCHANGED analysis

NextPaginate == PaginateStep

\* the loop keeps running: a request returns or raises, and a sleep ends
SpecPaginate == InitPaginate /\ [][NextPaginate]_vars /\ WF_vars(PaginateStep)

(***************************************************************************)
(* GitHubCommitService.save_commits_to_csv of github-scraper/main.py       *)
(***************************************************************************)
InitSaveCommits ==
    /\ pc = "save_commits_to_csv"
    /\ df = <<>>
    /\ component = <<>>
    /\ components = <<>>
    /\ module_name = NA
    /\ results = <<>>
    /\ report = NoReport
    /\ page = 1
    /\ all_data = <<>>
    /\ http = <<>>
    /\ commits = <<>>
    /\ pull_requests = <<>>
    /\ output_file = NoFile

\* get_commits, lines 96-109: _check_repo_access asks for the repository;
\* anything but a 200 (or no response at all) ends the call with an exception
CheckRepoAccess ==
    /\ pc = "save_commits_to_csv"
    /\ \E st \in {OK, NotFound, Unavailable, NoResponse} :
           /\ http' = Append(http, [endpoint |-> "repo", page |-> 0, status |-> st, body |-> <<>>])
           /\ pc' = IF st = OK THEN "get_commits" ELSE "raised"
    /\ page' = 1
    /\ commits' = <<>>
    /\ UNCHANGED <<all_data, pull_requests, output_file>>
    /\ UNCHANGED analysis

\* get_commits that leaves the loop on a failed request and goes on with
\* the commits it has
after_request_error_break == "process_commits"

\* get_commits, lines 135-137: a failed request is raised again
after_request_error == "raised"

\* get_commits, lines 114-144: one iteration of the loop; on the empty page
\* the function returns the commits, or raises when it has none
GetCommitsPage ==
    /\ pc = "get_commits"
    /\ \E response \in Responses("commits", page) :
           /\ http' = Append(http, response)
           /\ IF response.status # OK
              THEN /\ pc' = after_request_error
                   /\ UNCHANGED <<page, commits>>
              ELSE IF response.body = <<>>
                   THEN /\ pc' = IF commits = <<>> THEN "raised" ELSE "process_commits"
                        /\ UNCHANGED <<page, commits>>
                   ELSE /\ commits' = extend(commits, response.body)
                        /\ page' = page + 1
                        /\ pc' = "get_commits"
    /\ UNCHANGED <<all_data, pull_requests, output_file>>
    /\ UNCHANGED analysis

\* process_commits and the rest of save_commits_to_csv, lines 169-221: the
\* commits that lack a key are skipped (here the commits of the pages outside
\* complete); with no commit left process_commits raises, otherwise the frame
\* is written.  rows is the set of the commits in the file: their order, by
\* date, and the columns taken from get_detailed_commit are not modelled.
ProcessAndSave ==
    /\ pc = "process_commits"
    /\ \E complete \in SUBSET (1..(page - 1)) :
           LET processed_commits == SelectSeq(commits, LAMBDA c : c[2] \in complete)
           IN  IF processed_commits = <<>>
               THEN /\ pc' = "raised"
                    /\ UNCHANGED output_file
               ELSE /\ pc' = "written"
                    /\ output_file' =
                           [exists |-> TRUE,
                            rows |-> {processed_commits[k] : k \in 1..Len(processed_commits)}]
    /\ UNCHANGED <<page, all_data, http, commits, pull_requests>>
    /\ UNCHANGED analysis

NextSaveCommits == CheckRepoAccess \/ GetCommitsPage \/ ProcessAndSave

SpecSaveCommits == InitSaveCommits /\ [][NextSaveCommits]_vars

(***************************************************************************)
(* fetch_github_data.py: fetch_all_commits, fetch_all_pull_requests and    *)
(* the module body that writes the CSV file                                *)
(***************************************************************************)
\* the body sizes explored: an empty page, a short page, a full page
FetchSizes == {0, 1, per_page}

\* what session.get(url) can come back with: a 200 with a list, an error
\* status whose body is a JSON object (decodable) or something else, for
\* instance the HTML page of a gateway, or no response at all
FetchResponses(endpoint, p) ==
    {[endpoint |-> endpoint, page |-> p, status |-> OK, body |-> Body(endpoint, p, n),
      decodable |-> TRUE] :
        n \in (IF Served(endpoint) < MaxPages THEN FetchSizes ELSE {0})}
    \cup {[endpoint |-> endpoint, page |-> p, status |-> st, body |-> <<>>, decodable |-> dec] :
        st \in {NotFound, Unavailable}, dec \in BOOLEAN}
    \cup {[endpoint |-> endpoint, page |-> p, status |-> NoResponse, body |-> <<>>,
           decodable |-> FALSE]}

\* the statement after the call of a fetch function
AfterFetch(endpoint) == IF endpoint = "commits" THEN "fetch_all_pull_requests" ELSE "save"

\* one iteration of the loop of a fetch function: where the program is after
\* the response.  On a status other than 200 the print of line 26 (58) calls
\* response.json(), which raises when the body is not JSON; session.get that
\* raises is not caught either.
FetchOutcome(endpoint, response) ==
    IF response.status = NoResponse THEN "raised"
    ELSE IF response.status # OK
         THEN IF response.decodable THEN AfterFetch(endpoint) ELSE "raised"
         ELSE IF response.body = <<>> THEN AfterFetch(endpoint)
              ELSE pc

InitFetch ==
    /\ pc = "fetch_all_commits"
    /\ df = <<>>
    /\ component = <<>>
    /\ components = <<>>
    /\ module_name = NA
    /\ results = <<>>
    /\ report = NoReport
    /\ page = 1
    /\ all_data = <<>>
    /\ http = <<>>
    /\ commits = <<>>
    /\ pull_requests = <<>>
    /\ output_file = NoFile

\* fetch_all_commits, lines 21-38: one iteration
FetchAllCommitsStep ==
    /\ pc = "fetch_all_commits"
    /\ \E response \in FetchResponses("commits", page) :
           /\ http' = Append(http, response)
           /\ pc' = FetchOutcome("commits", response)
           /\ IF response.status = OK /\ response.body # <<>>
              THEN commits' = extend(commits, response.body) /\ page' = page + 1
              ELSE commits' = commits /\ page' = 1
    /\ UNCHANGED <<all_data, pull_requests, output_file>>
    /\ UNCHANGED analysis

\* fetch_all_pull_requests, lines 53-70: one iteration
FetchAllPullRequestsStep ==
    /\ pc = "fetch_all_pull_requests"
    /\ \E response \in FetchResponses("pulls", page) :
           /\ http' = Append(http, response)
           /\ pc' = FetchOutcome("pulls", response)
           /\ IF response.status = OK /\ response.body # <<>>
              THEN pull_requests' = extend(pull_requests, response.body) /\ page' = page + 1
              ELSE pull_requests' = pull_requests /\ page' = 1
    /\ UNCHANGED <<all_data, commits, output_file>>
    /\ UNCHANGED analysis

\* the module body, lines 78-87: the header, a row per commit, a row per
\* pull request
SaveCsv ==
    /\ pc = "save"
    /\ output_file' =
           [exists |-> TRUE,
            rows |-> << <<"Type", "Message">> >>
                     \o [k \in 1..Len(commits) |-> <<"Commit", commits[k]>>]
                     \o [k \in 1..Len(pull_requests) |-> <<"Pull Request", pull_requests[k]>>]]
    /\ pc' = "written"
    /\ UNCHANGED <<page, all_data, http, commits, pull_requests>>
    /\ UNCHANGED analysis

NextFetch == FetchAllCommitsStep \/ FetchAllPullRequestsStep \/ SaveCsv

SpecFetch == InitFetch /\ [][NextFetch]_vars

(***************************************************************************)
(* Definitions shared by the properties                                    *)
(***************************************************************************)
Returned(r) == "raised" \notin DOMAIN r

\* the filtered events of the call in progress, in arrival order
Filtered == module_commits(df, module_name)

Positions(mc) == 1..Len(mc)
Deployments(mc) == {k \in Positions(mc) : mc[k].is_deployment}
Failures(mc) == {k \in Positions(mc) : mc[k].is_failure}
Timed(mc) == {k \in Positions(mc) : mc[k].date # NaT}

RECURSIVE SumOver(_, _)
SumOver(S, f) ==
    IF S = {} THEN 0
    ELSE LET x == CHOOSE y \in S : TRUE IN f[x] + SumOver(S \ {x}, f)

\* the first deployment at a position after k, 0 when there is none
NextDeployment(mc, k) ==
    IF \E j \in Deployments(mc) : j > k
    THEN CHOOSE j \in Deployments(mc) : j > k /\ \A i \in Deployments(mc) : i > k => j <= i
    ELSE 0

\* the failures that give a recovery duration, and the durations
Recovered(mc) ==
    {k \in Failures(mc) :
        LET j == NextDeployment(mc, k)
        IN  /\ j # 0
            /\ k \in Timed(mc)
            /\ j \in Timed(mc)
            /\ mc[j].date[1] - mc[k].date[1] > 0}

RecoveryHours(mc) ==
    [k \in Recovered(mc) |-> mc[NextDeployment(mc, k)].date[1] - mc[k].date[1]]

PairedMTTR(mc) ==
    IF Recovered(mc) = {} THEN Zero
    ELSE Float(SumOver(Recovered(mc), RecoveryHours(mc)), Cardinality(Recovered(mc)))

Perms(n) == {p \in [1..n -> 1..n] : \A i, j \in 1..n : p[i] = p[j] => i = j}
Permuted(d, p) == [i \in 1..Len(d) |-> d[p[i]]]
WithoutNaT(d) == SelectSeq(d, LAMBDA e : e.date # NaT)
Chronological(d) == \A i, j \in 1..Len(d) : i < j => d[i].date[1] <= d[j].date[1]

(***************************************************************************)
(* C1: the Mean Time to Recovery does not depend on the arrival order of   *)
(* the events, and it is the value obtained by pairing each failure with   *)
(* the first deployment after it in timestamp order.                       *)
(***************************************************************************)
C1_MTTRIndependentOfArrivalOrder ==
    pc = "called" =>
        \A p \in Perms(Len(df)) :
            LET d == Permuted(df, p)
                r == calculate_dora_metrics(d, module_name)
            IN  /\ Returned(r)
                /\ FloatEq(r.Mean_Time_to_Recovery, report.Mean_Time_to_Recovery)
                /\ Chronological(WithoutNaT(d)) =>
                       FloatEq(report.Mean_Time_to_Recovery,
                               PairedMTTR(module_commits(WithoutNaT(d), module_name)))

(***************************************************************************)
(* C2: with at least one deployment, Lead Time for Changes is the mean of  *)
(* the durations from every filtered event to every deployment (the cross  *)
(* join of deployment timestamps and event timestamps).                    *)
(***************************************************************************)
CrossJoin(mc) == (Deployments(mc) \cap Timed(mc)) \X Timed(mc)

CrossJoinHours(mc) ==
    [pair \in CrossJoin(mc) |-> mc[pair[1]].date[1] - mc[pair[2]].date[1]]

C2_LeadTimeIsCrossJoinMean ==
    pc = "called" /\ Returned(report) /\ CrossJoin(Filtered) # {} =>
        FloatEq(report.Lead_Time_for_Changes,
                Float(SumOver(CrossJoin(Filtered), CrossJoinHours(Filtered)),
                      Cardinality(CrossJoin(Filtered))))

(***************************************************************************)
(* C3: every numeric field of a report is a finite number, and 0 when      *)
(* there is no deployment.                                                 *)
(***************************************************************************)
C3_NumericFieldsFinite ==
    pc = "called" =>
        /\ Returned(report)
        /\ IsFinite(report.Weekly_Deployment_Frequency)
        /\ IsFinite(report.Change_Failure_Rate)
        /\ IsFinite(report.Mean_Time_to_Recovery)
        /\ IsFinite(report.Lead_Time_for_Changes)
        /\ Deployments(Filtered) = {} =>
               /\ IsZero(report.Weekly_Deployment_Frequency)
               /\ IsZero(report.Change_Failure_Rate)
               /\ IsZero(report.Lead_Time_for_Changes)

(***************************************************************************)
(* C4: after a run of main, every event that carries a tag is counted in   *)
(* the Total Commits of exactly one report, the report of its tag.         *)
(***************************************************************************)
CountedIn(i, k) ==
    \E j \in 1..Len(module_commits(df, results[k].Module_Name)) :
        module_commits(df, results[k].Module_Name)[j].index = i - 1

C4_EventInExactlyOneReport ==
    pc = "done" =>
        \A i \in 1..Len(df) :
            component[i] # NA =>
                \A k \in 1..Len(results) :
                    CountedIn(i, k) <=> results[k].Module_Name = component[i]

(***************************************************************************)
(* C5: the reported MTTR is the mean of the positive durations from each   *)
(* failure to the first deployment at a later position of the filtered     *)
(* events, 0 when there is none; a failure followed 5 hours later by a     *)
(* deployment gives 5.                                                     *)
(***************************************************************************)
C5_MTTRIsMeanOfPositiveRecoveries ==
    pc = "called" =>
        LET mc == Filtered
        IN  /\ Returned(report)
            /\ FloatEq(report.Mean_Time_to_Recovery, PairedMTTR(mc))
            /\ Recovered(mc) = {} => report.Mean_Time_to_Recovery = Zero
            /\ \A k \in Failures(mc) :
                   /\ Failures(mc) = {k}
                   /\ Deployments(mc) = {k + 1}
                   /\ Timed(mc) = {k, k + 1}
                   /\ mc[k + 1].date[1] = mc[k].date[1] + 5
                   => FloatEq(report.Mean_Time_to_Recovery, Float(5, 1))

\* a failure that is also a deployment, recovered by a later deployment, and
\* a second recovery: the mean of two durations
C5_Witness ==
    /\ pc = "called"
    /\ Returned(report)
    /\ Cardinality(Recovered(Filtered)) = 2
    /\ \E k \in Recovered(Filtered) : k \in Deployments(Filtered)
    /\ FloatEq(report.Mean_Time_to_Recovery, Float(48, 1))

(***************************************************************************)
(* C6: a failure without a later deployment adds no sample to MTTR, no     *)
(* sample is zero or negative, and MTTR is 0 when no failure has a later   *)
(* deployment.                                                             *)
(***************************************************************************)
HasLaterDeployment(mc, k) ==
    \E j \in Deployments(mc) \cap Timed(mc) :
        k \in Timed(mc) /\ mc[j].date[1] > mc[k].date[1]

C6_NoSampleWithoutLaterDeployment ==
    pc = "called" =>
        LET mc == Filtered
            samples == recovery_times(mc)
        IN  /\ Returned(report)
            /\ \A k \in Failures(mc) :
                   ~ HasLaterDeployment(mc, k) \/ NextDeployment(mc, k) = 0
                       => recovery_step(mc, mc[k].index) = <<>>
            /\ \A n \in 1..Len(samples) : samples[n] > 0
            /\ (\A k \in Failures(mc) : ~ HasLaterDeployment(mc, k))
                   => report.Mean_Time_to_Recovery = Zero

\* the only deployment arrives after the only failure and is timestamped before it
C6_Witness ==
    /\ pc = "called"
    /\ Returned(report)
    /\ \E k \in Failures(Filtered) :
           /\ Failures(Filtered) = {k}
           /\ Deployments(Filtered) = {k + 1}
           /\ Timed(Filtered) = {k, k + 1}
           /\ Filtered[k + 1].date[1] < Filtered[k].date[1]
    /\ report.Mean_Time_to_Recovery = Zero

(***************************************************************************)
(* C7: the events without a timestamp take no part in MTTR: it equals the  *)
(* MTTR of the same events with the timestamp-less ones removed.           *)
(***************************************************************************)
C7_MTTRIgnoresMissingTimestamps ==
    pc = "called" /\ Returned(report) =>
        FloatEq(report.Mean_Time_to_Recovery,
                calculate_dora_metrics(WithoutNaT(df), module_name).Mean_Time_to_Recovery)

(***************************************************************************)
(* C8: Weekly Deployment Frequency is 0 without deployments, otherwise the *)
(* mean of the per-week deployment counts over the ISO weeks (Monday to    *)
(* Sunday) that hold a deployment; two deployments in one week and one in  *)
(* the next give 1.5.  The mean of no week at all is NaN.                  *)
(***************************************************************************)
ISOWeekMonday(t) == LET day == t[1] \div 24 IN day - ((day + 3) % 7)

DeploymentWeeks(mc) == {ISOWeekMonday(mc[k].date) : k \in Deployments(mc) \cap Timed(mc)}

DeploymentsInWeek(mc) ==
    [w \in DeploymentWeeks(mc) |->
        Cardinality({k \in Deployments(mc) \cap Timed(mc) : ISOWeekMonday(mc[k].date) = w})]

C8_WeeklyFrequencyIsMeanOverActiveWeeks ==
    pc = "called" =>
        LET mc == Filtered
            weeks == DeploymentWeeks(mc)
            perWeek == DeploymentsInWeek(mc)
            freq == report.Weekly_Deployment_Frequency
        IN  /\ Returned(report)
            /\ Deployments(mc) = {} => freq = Zero
            /\ weeks # {} => FloatEq(freq, Float(SumOver(weeks, perWeek), Cardinality(weeks)))
            /\ Deployments(mc) # {} /\ weeks = {} => freq = NaN
            /\ (\E w \in weeks : weeks = {w, w + 7} /\ perWeek[w] = 2 /\ perWeek[w + 7] = 1)
                   => FloatEq(freq, Float(3, 2))

C8_Witness ==
    /\ pc = "called"
    /\ Returned(report)
    /\ \E w \in DeploymentWeeks(Filtered) :
           /\ DeploymentWeeks(Filtered) = {w, w + 7}
           /\ DeploymentsInWeek(Filtered)[w] = 2
           /\ DeploymentsInWeek(Filtered)[w + 7] = 1
    /\ FloatEq(report.Weekly_Deployment_Frequency, Float(3, 2))

(***************************************************************************)
(* C9 as stated: Change Failure Rate exceeds 100 whenever the failure      *)
(* count exceeds the deployment count.                                     *)
(***************************************************************************)
C9_RateExceeds100WheneverMoreFailures ==
    pc = "called" /\ Returned(report) =>
        (Cardinality(Failures(Filtered)) > Cardinality(Deployments(Filtered))
            => FloatGt(report.Change_Failure_Rate, Float(100, 1)))

(***************************************************************************)
(* C9 as amended: Change Failure Rate is failure_count / deployment_count  *)
(* * 100 when deployment_count > 0 and 0 otherwise, both counts over all   *)
(* the filtered events; it is not capped: it exceeds 100 whenever the      *)
(* failure count exceeds a deployment count that is not 0.                 *)
(***************************************************************************)
C9_ChangeFailureRate ==
    pc = "called" =>
        LET mc == Filtered
            f == Cardinality(Failures(mc))
            d == Cardinality(Deployments(mc))
            rate == report.Change_Failure_Rate
        IN  /\ Returned(report)
            /\ d > 0 => FloatEq(rate, Float(f * 100, d))
            /\ d = 0 => rate = Zero
            /\ d > 0 /\ f > d => FloatGt(rate, Float(100, 1))

C9_Witness ==
    /\ pc = "called"
    /\ Returned(report)
    /\ Cardinality(Deployments(Filtered)) = 1
    /\ Cardinality(Failures(Filtered)) = 2
    /\ FloatEq(report.Change_Failure_Rate, Float(200, 1))

LowerStr(s) == [i \in 1..Len(s) |-> Lower(s[i])]

\* t occurs somewhere in s, letter case ignored
Occurs(t, s) ==
    \E i \in 0..(Len(s) - Len(t)) : SubSeq(LowerStr(s), i + 1, i + Len(t)) = LowerStr(t)

\* the positions of the events of d that name the component in square brackets
\* Occurs, tabulated over the messages and the names of the frames explored
Corpus == (CallMessages \cup MainMessages \cup TextMessages \cup TagMessages \cup NameMessages) \ {NA}

Names == ModuleNames \cup TextNames \cup TermNames \cup {name_A, name_a, name_B, name_Auth}

HoldsName == [name \in Names |-> [m \in Corpus |-> Occurs(<<"[">> \o name \o <<"]">>, m)]]

Selected(d, name) ==
    {i \in 1..Len(d) : d[i].message # NA /\ HoldsName[name][d[i].message]}

\* the events of d at the positions S, in their order
Restrict(d, S) ==
    LET keep == SelectSeq([i \in 1..Len(d) |-> i], LAMBDA i : i \in S)
    IN  [k \in 1..Len(keep) |-> d[keep[k]]]

(***************************************************************************)
(* C11: the filter keeps exactly the events whose message holds the        *)
(* component's name in square brackets, in any letter case, anywhere in    *)
(* the message; the other events, those without a message among them, add  *)
(* nothing to the counts and metrics of the report.                        *)
(***************************************************************************)
C11_FilterIsBracketedNameAnywhere ==
    pc = "called" /\ Returned(report) =>
        LET mc == Filtered
            sel == Selected(df, module_name)
        IN  /\ {mc[k].index + 1 : k \in 1..Len(mc)} = sel
            /\ report.Total_Commits = Cardinality(sel)
            /\ report = calculate_dora_metrics(Restrict(df, sel), module_name)

\* a lower-case tag at the end of a message is kept; a missing message and a
\* longer tag that starts with the name are left out
C11_Witness ==
    /\ pc = "called"
    /\ Returned(report)
    /\ module_name = name_X
    /\ \E i, j, k \in 1..Len(df) :
           /\ df[i].message = msg_fix_x
           /\ df[j].message = NA
           /\ df[k].message = msg_XY_Updates
    /\ report.Total_Commits = 1

(***************************************************************************)
(* C12: an event whose message carries no tag (no '[' followed by a        *)
(* character other than ']' and, later, a ']') is counted in no report of  *)
(* a run of main.                                                          *)
(***************************************************************************)
CarriesTag(m) ==
    \E p \in 1..Len(m) :
        /\ m[p] = "["
        /\ p + 1 <= Len(m)
        /\ m[p + 1] # "]"
        /\ \E q \in (p + 2)..Len(m) : m[q] = "]"

C12_UntaggedEventInNoReport ==
    pc \in {"loop", "done"} =>
        \A i \in 1..Len(df) :
            ~ CarriesTag(df[i].message) =>
                \A k \in 1..Len(results) : ~ CountedIn(i, k)

\* an untagged event in a log of which main has reported two components
C12_Witness ==
    /\ pc = "done"
    /\ Len(results) = 2
    /\ \E i \in 1..Len(df) : ~ CarriesTag(df[i].message)

(***************************************************************************)
(* C13: extract_components returns the distinct non-empty tags, one at     *)
(* most per message: the text between the first '[' that is followed by a  *)
(* non-empty run of characters other than ']' and the next ']'.  A message *)
(* without brackets or with empty or unclosed brackets gives nothing,      *)
(* "[Auth] fixed bug" gives Auth, later tags of a message are ignored.     *)
(***************************************************************************)
TagStart(m) ==
    CHOOSE p \in 1..Len(m) :
        /\ m[p] = "[" /\ p + 1 <= Len(m) /\ m[p + 1] # "]"
        /\ \E q \in (p + 2)..Len(m) : m[q] = "]"
        /\ \A p0 \in 1..(p - 1) :
               ~ (/\ m[p0] = "[" /\ m[p0 + 1] # "]"
                  /\ \E q \in (p0 + 2)..Len(m) : m[q] = "]")

TagEnd(m) ==
    CHOOSE q \in (TagStart(m) + 1)..Len(m) :
        m[q] = "]" /\ \A j \in (TagStart(m) + 1)..(q - 1) : m[j] # "]"

FirstTag(m) == SubSeq(m, TagStart(m) + 1, TagEnd(m) - 1)

C13_ComponentsAreDistinctFirstTags ==
    pc \in {"loop", "done"} =>
        /\ {components[k] : k \in 1..Len(components)}
               = {FirstTag(df[i].message) : i \in {j \in 1..Len(df) : CarriesTag(df[j].message)}}
        /\ \A k1, k2 \in 1..Len(components) : components[k1] = components[k2] => k1 = k2
        /\ \A k \in 1..Len(components) : components[k] # <<>>
        /\ \A i \in 1..Len(df) :
               /\ component[i] = IF CarriesTag(df[i].message) THEN FirstTag(df[i].message) ELSE NA
               /\ df[i].message = msg_Auth_fixed_bug => component[i] = name_Auth
               /\ df[i].message \in {msg_fixed_bug, msg_fix, msg_A_open} => component[i] = NA
               /\ df[i].message = msg_B_PR_A => component[i] = name_B
               /\ df[i].message = msg_empty_A => component[i] = name_A

\* two messages with the same tag, one of them with empty brackets first,
\* and a message without brackets: one component
C13_Witness ==
    /\ pc = "done"
    /\ Len(df) = 3
    /\ components = <<name_A>>
    /\ \E i \in 1..Len(df) : df[i].message = msg_fixed_bug
    /\ \E i \in 1..Len(df) : df[i].message = msg_empty_A

(***************************************************************************)
(* C14: a run of main raises no error and ends with exactly one report per *)
(* discovered component, the Module_Name values pairwise distinct and in   *)
(* the order of extraction (the order in which the tags first appear in    *)
(* the frame); when no message carries a tag there is no component and no  *)
(* report.                                                                 *)
(***************************************************************************)
FirstRowOf(tag) ==
    CHOOSE i \in 1..Len(df) :
        /\ CarriesTag(df[i].message) /\ FirstTag(df[i].message) = tag
        /\ \A j \in 1..(i - 1) :
               ~ (CarriesTag(df[j].message) /\ FirstTag(df[j].message) = tag)

C14_WitnessNoTag ==
    /\ pc = "done"
    /\ Len(df) = MaxEvents
    /\ results = <<>>

(***************************************************************************)
(* C15: each of the four labels of a message is true exactly when a term   *)
(* of its vocabulary occurs in the message as a substring, letter case     *)
(* ignored and no word boundary required; the labels are independent: a    *)
(* message with "bug" is both failure and bug, a message that matches      *)
(* nothing has four false labels.                                          *)
(***************************************************************************)
Vocabulary ==
    [deployment |-> {<<"d", "e", "p", "l", "o", "y">>, <<"r", "e", "l", "e", "a", "s", "e">>,
                     <<"b", "u", "m", "p">>, <<"u", "p", "d", "a", "t", "e">>,
                     <<"v", "e", "r", "s", "i", "o", "n">>},
     failure |-> {<<"b", "u", "g">>, <<"r", "o", "l", "l", "b", "a", "c", "k">>,
                  <<"h", "o", "t", "f", "i", "x">>, <<"r", "e", "v", "e", "r", "t">>,
                  <<"p", "a", "t", "c", "h">>},
     bug |-> {<<"b", "u", "g">>, <<"e", "r", "r", "o", "r">>, <<"i", "s", "s", "u", "e">>},
     pull_request |-> {<<"p", "r">>,
                       <<"p", "u", "l", "l", " ", "r", "e", "q", "u", "e", "s", "t">>}]

HoldsTerm ==
    [category \in DOMAIN Vocabulary |->
        [m \in Corpus |-> \E t \in Vocabulary[category] : Occurs(t, m)]]

HasTerm(category, m) == HoldsTerm[category][m]

C15_LabelIffVocabularyTermOccurs ==
    pc = "called" /\ Returned(report) =>
        LET mc == Filtered
        IN  \A k \in 1..Len(mc) :
                /\ mc[k].is_deployment <=> HasTerm("deployment", mc[k].message)
                /\ mc[k].is_failure <=> HasTerm("failure", mc[k].message)
                /\ mc[k].is_bug <=> HasTerm("bug", mc[k].message)
                /\ mc[k].is_pr <=> HasTerm("pull_request", mc[k].message)
                /\ mc[k].message \in {msg_X_bug, msg_A_bug} => mc[k].is_failure /\ mc[k].is_bug

\* "[X] bug" is failure and bug only, "[X] improve" is pull-request only
\* ("pr" inside a word), "fix [x]" has four false labels
C15_Witness ==
    /\ pc = "called" /\ Returned(report) /\ module_name = name_X
    /\ LET mc == Filtered
       IN  /\ Len(mc) = 3
           /\ \E k \in 1..3 : /\ mc[k].message = msg_X_bug
                              /\ mc[k].is_failure /\ mc[k].is_bug
                              /\ ~ mc[k].is_deployment /\ ~ mc[k].is_pr
           /\ \E k \in 1..3 : /\ mc[k].message = msg_X_improve
                              /\ mc[k].is_pr /\ ~ mc[k].is_bug
           /\ \E k \in 1..3 : /\ mc[k].message = msg_fix_x
                              /\ ~ mc[k].is_deployment /\ ~ mc[k].is_failure
                              /\ ~ mc[k].is_bug /\ ~ mc[k].is_pr

(***************************************************************************)
(* C16: in every report Total_Commits is the number of filtered events,    *)
(* Total_Bugs and Total_PRs the numbers of filtered events labelled bug    *)
(* and pull-request; the deployment and failure counts that the metrics    *)
(* use are the numbers of filtered events so labelled.  Events with a      *)
(* missing timestamp are included in all of these counts.                  *)
(***************************************************************************)
Labelled(category) ==
    {i \in Selected(df, module_name) : HasTerm(category, df[i].message)}

C16_CountsAreCardinalitiesOfLabelledEvents ==
    pc = "called" /\ Returned(report) =>
        LET mc == Filtered
            deployments == Cardinality(Labelled("deployment"))
            failures == Cardinality(Labelled("failure"))
        IN  /\ report.Total_Commits = Cardinality(Selected(df, module_name))
            /\ report.Total_Bugs = Cardinality(Labelled("bug"))
            /\ report.Total_PRs = Cardinality(Labelled("pull_request"))
            /\ deployment_count(mc) = deployments
            /\ failure_count(mc) = failures
            /\ deployments > 0 =>
                   FloatEq(report.Change_Failure_Rate, Float(failures * 100, deployments))
            /\ deployments = 0 =>
                   /\ IsZero(report.Change_Failure_Rate)
                   /\ IsZero(report.Weekly_Deployment_Frequency)
                   /\ IsZero(report.Lead_Time_for_Changes)

\* three filtered events without timestamp: a bug, a release and a
\* pull-request, each counted
C16_Witness ==
    /\ pc = "called" /\ Returned(report) /\ module_name = name_X
    /\ \A i \in 1..Len(df) : df[i].date = NaT
    /\ report.Total_Commits = 3
    /\ report.Total_Bugs = 1
    /\ report.Total_PRs = 1
    /\ deployment_count(Filtered) = 1
    /\ failure_count(Filtered) = 1

SameButCase(n1, n2) == n1 # n2 /\ LowerStr(n1) = LowerStr(n2)

C20_NamesDifferingInCaseGetTwinReports ==
    /\ pc \in {"loop", "done"} =>
           \A k1, k2 \in 1..Len(results) :
               SameButCase(results[k1].Module_Name, results[k2].Module_Name) =>
                   /\ module_commits(df, results[k1].Module_Name)
                          = module_commits(df, results[k2].Module_Name)
                   /\ Selected(df, results[k1].Module_Name)
                          = Selected(df, results[k2].Module_Name)
                   /\ results[k1].Total_Commits = Cardinality(Selected(df, results[k2].Module_Name))
                   /\ [results[k1] EXCEPT !.Module_Name = NA]
                          = [results[k2] EXCEPT !.Module_Name = NA]
    /\ pc = "done" =>
           \A i, j \in 1..Len(df) :
               /\ CarriesTag(df[i].message) /\ CarriesTag(df[j].message)
               /\ SameButCase(FirstTag(df[i].message), FirstTag(df[j].message))
               => \E k1, k2 \in 1..Len(results) :
                      /\ k1 # k2
                      /\ results[k1].Module_Name = FirstTag(df[i].message)
                      /\ results[k2].Module_Name = FirstTag(df[j].message)

\* reports for A and for a, each over the same two events
C20_Witness ==
    /\ pc = "done"
    /\ \E k1, k2 \in 1..Len(results) :
           /\ results[k1].Module_Name = name_A
           /\ results[k2].Module_Name = name_a
           /\ results[k1].Total_Commits = 2
           /\ results[k2].Total_Bugs = 1
           /\ IsFinite(results[k2].Weekly_Deployment_Frequency)
           /\ ~ IsZero(results[k2].Weekly_Deployment_Frequency)

(***************************************************************************)
(* C21: the labels are computed over the whole message, the bracketed tag  *)
(* included: when the name of the component itself holds a term of a       *)
(* vocabulary (letter case ignored), every filtered event of the component *)
(* carries that label, and the count of the label equals Total_Commits.    *)
(***************************************************************************)
NameHoldsTerm == [category \in DOMAIN Vocabulary |->
                     [name \in Names |-> \E t \in Vocabulary[category] : Occurs(t, name)]]

C21_TermInNameLabelsEveryEvent ==
    pc = "called" /\ Returned(report) =>
        LET mc == Filtered
        IN  /\ NameHoldsTerm["deployment"][module_name] =>
                   /\ \A k \in Positions(mc) : mc[k].is_deployment
                   /\ deployment_count(mc) = report.Total_Commits
            /\ NameHoldsTerm["failure"][module_name] =>
                   /\ \A k \in Positions(mc) : mc[k].is_failure
                   /\ failure_count(mc) = report.Total_Commits
            /\ NameHoldsTerm["bug"][module_name] =>
                   /\ \A k \in Positions(mc) : mc[k].is_bug
                   /\ report.Total_Bugs = report.Total_Commits
            /\ NameHoldsTerm["pull_request"][module_name] =>
                   /\ \A k \in Positions(mc) : mc[k].is_pr
                   /\ report.Total_PRs = report.Total_Commits

\* three events of Prod, in both letter cases, none with a term outside
\* the tag: three pull-requests
C21_Witness ==
    /\ pc = "called" /\ Returned(report) /\ module_name = name_Prod
    /\ \E i \in 1..Len(df) : df[i].message = msg_Prod_fix
    /\ \E i \in 1..Len(df) : df[i].message = msg_log_prod
    /\ report.Total_Commits = 3
    /\ report.Total_PRs = 3
    /\ report.Total_Bugs = 0

(***************************************************************************)
(* C22: the report of every component returned by extract_components, on   *)
(* the sequence it was extracted from, has Total_Commits >= 1, and in      *)
(* every report 0 <= Total_Bugs <= Total_Commits and                       *)
(* 0 <= Total_PRs <= Total_Commits.                                        *)
(***************************************************************************)
C22_ExtractedComponentHasEventsAndCountsAreBounded ==
    pc \in {"loop", "done"} =>
        /\ \A c \in 1..Len(components) :
               LET r == calculate_dora_metrics(df, components[c])
               IN  /\ Returned(r)
                   /\ r.Total_Commits >= 1
                   /\ c <= Len(results) => results[c] = r
        /\ \A k \in 1..Len(results) :
               /\ results[k].Total_Commits >= 1
               /\ 0 <= results[k].Total_Bugs
               /\ results[k].Total_Bugs <= results[k].Total_Commits
               /\ 0 <= results[k].Total_PRs
               /\ results[k].Total_PRs <= results[k].Total_Commits

\* two events without a timestamp: a component with a bug and a
\* pull-request, and a component whose only event is a pull-request
C22_Witness ==
    /\ pc = "done"
    /\ Len(df) = 2
    /\ \A i \in 1..Len(df) : df[i].date = NaT
    /\ \E k \in 1..Len(results) :
           /\ results[k].Module_Name = name_A
           /\ results[k].Total_Commits = 2
           /\ results[k].Total_Bugs = 1
           /\ results[k].Total_PRs = 1
    /\ \E k \in 1..Len(results) :
           /\ results[k].Module_Name = name_B
           /\ results[k].Total_PRs = results[k].Total_Commits

(***************************************************************************)
(* C23: the paginated fetch loop asks for the pages 1, 2, 3, ... in        *)
(* increasing order, one request per page, and stops at the first page     *)
(* that comes back empty; the accumulated list is the concatenation, in    *)
(* page order, of the items of the non-empty pages asked for, none         *)
(* dropped, repeated or moved; and once the server has no page left the    *)
(* loop terminates.                                                        *)
(***************************************************************************)
RECURSIVE Concat(_)
Concat(bodies) == IF bodies = <<>> THEN <<>> ELSE Head(bodies) \o Concat(Tail(bodies))

C23_PagesInOrder ==
    /\ \A i \in 1..Len(http) : http[i].page = i
    /\ \A i \in 1..(Len(http) - 1) : http[i].status = OK /\ http[i].body # <<>>
    /\ pc = "paginate" =>
           /\ page = Len(http) + 1
           /\ \A i \in 1..Len(http) : http[i].status = OK /\ http[i].body # <<>>
    /\ pc = "returned" => http[Len(http)].status = OK /\ http[Len(http)].body = <<>>
    /\ pc = "raised" => http[Len(http)].status # OK
    /\ all_data = Concat([i \in 1..Len(http) |-> http[i].body])
    /\ \A i, j \in 1..Len(all_data) : all_data[i] = all_data[j] => i = j

C23_PaginationInOrderCompleteAndTerminates ==
    /\ []C23_PagesInOrder
    /\ <>(pc \in {"returned", "raised"})

\* three non-empty pages, then the empty page that ends the loop
C23_Witness ==
    /\ pc = "returned"
    /\ Len(http) = MaxPages + 1
    /\ Len(all_data) > MaxPages
    /\ all_data[1] = Item("data", 1, 1)
    /\ all_data[Len(all_data)] = http[MaxPages].body[Len(http[MaxPages].body)]

(***************************************************************************)
(* C24: save_commits_to_csv writes the file only after the access check    *)
(* succeeded, every page request succeeded and at least one commit was     *)
(* fetched.  After a failed access check no commits page is requested;     *)
(* after a failed access check or page request, or with no commit found,   *)
(* the call has raised and nothing is returned or written.                 *)
(***************************************************************************)
PageRequests == {i \in 1..Len(http) : http[i].endpoint = "commits"}

AccessGranted == http # <<>> /\ http[1].endpoint = "repo" /\ http[1].status = OK

NoCommitFound ==
    /\ PageRequests # {}
    /\ http[Len(http)].status = OK
    /\ http[Len(http)].body = <<>>
    /\ \A i \in PageRequests : http[i].body = <<>>

C24_FileOnlyAfterCompleteFetch ==
    /\ output_file # NoFile =>
           /\ pc = "written"
           /\ AccessGranted
           /\ \A i \in 1..Len(http) : http[i].status = OK
           /\ Len(commits) >= 1
           /\ output_file.rows \subseteq {commits[k] : k \in 1..Len(commits)}
    /\ pc \in {"process_commits", "written"} =>
           /\ AccessGranted
           /\ \A i \in 1..Len(http) : http[i].status = OK
           /\ Len(commits) >= 1
    /\ ~ AccessGranted => PageRequests = {}
    /\ (\E i \in 1..Len(http) : http[i].status # OK) \/ NoCommitFound =>
           pc = "raised" /\ output_file = NoFile

\* commits of two pages fetched and written
C24_Witness ==
    /\ pc = "written"
    /\ Len(http) = 4
    /\ Len(commits) >= 2
    /\ output_file # NoFile
    /\ Item("commits", 2, 1) \in output_file.rows

\* the call raised on the second page, with the commits of the first in hand
C24_WitnessRaised ==
    /\ pc = "raised"
    /\ Len(http) = 3
    /\ http[3].status = Unavailable
    /\ commits # <<>>
    /\ output_file = NoFile

(***************************************************************************)
(* C25: fetch_all_commits and fetch_all_pull_requests stop at the first    *)
(* response whose status is not 200 without raising and return what the    *)
(* pages before it gave, so that the CSV file is still written with the    *)
(* partial, possibly empty, data.                                          *)
(***************************************************************************)
ErrorResponses == {i \in 1..Len(http) : http[i].status \notin {OK, NoResponse}}

C25_ErrorStatusEndsFetchWithoutRaising ==
    /\ ErrorResponses # {} => pc # "raised"
    /\ pc = "written" =>
           output_file.rows = << <<"Type", "Message">> >>
               \o [k \in 1..Len(commits) |-> <<"Commit", commits[k]>>]
               \o [k \in 1..Len(pull_requests) |-> <<"Pull Request", pull_requests[k]>>]

====
